---- MODULE Spec2Model ----
(***************************************************************************)
(* Message ingestion and device-identity reconciliation of the MQTT/IoT    *)
(* backend (src/backend/server.js) over its PostgreSQL schema              *)
(* (src/sql/init.sql).                                                     *)
(*                                                                         *)
(* Every inbound bus message is handled by one invocation of the async     *)
(* "message" listener.  An invocation runs synchronously up to its first   *)
(* pool.query, is suspended while the store executes the statement, and    *)
(* resumes in its continuation.  Invocations interleave at those points.   *)
(***************************************************************************)
EXTENDS Integers, Sequences, FiniteSets, TLC

VARIABLES
    devices,     \* rows of table devices: [mac, user, name, active]
    telemetry,   \* rows of table telemetry, in insertion order
    alarms,      \* rows of table alarms, in insertion order
    images,      \* rows of table images, in insertion order
    files,       \* objects written under IMAGES_DIR
    users,       \* in-memory map: tenant -> list of {macAddress, name}
    handlers,    \* one record per listener / request invocation
    published,   \* mqttClient.publish calls, in order
    emitted,     \* io.to(room).emit calls, in order
    rooms        \* Socket.IO rooms: room -> sockets that joined it

vars == <<devices, telemetry, alarms, images, files, users, handlers,
          published, emitted, rooms>>

-----------------------------------------------------------------------------
(* Bounds of the exploration *)

MaxReg == 3      \* registration messages and REST add-device requests
MaxData == 1     \* telemetry, alarm and image messages

(* Inputs *)

Tenants == {"A", "B"}              \* keys of the users map
UserOrder == <<"A", "B">>          \* iteration order of the users Map
NoName == "<none>"                 \* payload without a (truthy) name
NoMac == << >>                     \* payload without a macAddress
Names == {"N1", "N2"}
MacInputs == { <<"a", ":", "b">>, <<"a", "_", "b">> }
NoId == "<none>"                   \* payload without a (truthy) messageId
MessageIds == {"m1"}
NoUser == "<none>"
NoOid == 0
Viewers == {"v1"}                  \* connected Socket.IO clients

-----------------------------------------------------------------------------
(* Pure helpers *)

\* macAddress.replace(/:/g, '_')
Canon(mac) == [i \in DOMAIN mac |-> IF mac[i] = ":" THEN "_" ELSE mac[i]]

RECURSIVE SelectFirst(_, _, _)
\* Array.prototype.find: index of the first element with macAddress = mac, 0 if none
SelectFirst(list, mac, i) ==
    IF i > Len(list) THEN 0
    ELSE IF list[i].macAddress = mac THEN i
    ELSE SelectFirst(list, mac, i + 1)

FindDevice(list, mac) == SelectFirst(list, mac, 1)

RECURSIVE FindOwner(_, _, _)
\* for (const [userUuid, userData] of users) { ... find ... break }
\* position in UserOrder of the first tenant whose list holds mac, 0 if none
FindOwner(cache, mac, k) ==
    IF k > Len(UserOrder) THEN 0
    ELSE IF FindDevice(cache[UserOrder[k]], mac) # 0 THEN k
    ELSE FindOwner(cache, mac, k + 1)

\* existingUser.devices.filter(d => d.macAddress !== mac)
WithoutMac(list, mac) == SelectSeq(list, LAMBDA d : d.macAddress # mac)

-----------------------------------------------------------------------------
(* The store: table devices, PRIMARY KEY (mac_address, user_uuid) and       *)
(* UNIQUE INDEX idx_devices_mac_active_unique ON (mac_address) WHERE active *)

PrimaryKeyOk(rows) ==
    \A r1, r2 \in rows : (r1.mac = r2.mac /\ r1.user = r2.user) => r1 = r2

ActiveUniqueOk(rows) ==
    \A r1, r2 \in rows : (r1.mac = r2.mac /\ r1.active /\ r2.active) => r1 = r2

\* the schema without idx_devices_mac_active_unique
ConstraintsOk_NoActiveIndex(rows) == PrimaryKeyOk(rows)

ConstraintsOk(rows) == PrimaryKeyOk(rows) /\ ActiveUniqueOk(rows)

\* INSERT INTO devices (mac_address, user_uuid, name) VALUES ($1, $2, $3)
InsertDevice(rows, mac, user, name) ==
    rows \cup {[mac |-> mac, user |-> user, name |-> name, active |-> TRUE]}

\* an INSERT checked against the primary key only
InsertDeviceAccepted_KeyOnly(rows, mac, user, name) ==
    \A r \in rows : ~(r.mac = mac /\ r.user = user)

\* a statement is rejected when it would duplicate a key
InsertDeviceAccepted(rows, mac, user, name) ==
    /\ \A r \in rows : ~(r.mac = mac /\ r.user = user)
    /\ ConstraintsOk(InsertDevice(rows, mac, user, name))

\* UPDATE devices SET user_uuid = $1, name = $2 WHERE mac_address = $3
UpdateOwner(rows, mac, user, name) ==
    {r \in rows : r.mac # mac}
        \cup {[r EXCEPT !.user = user, !.name = name] : r \in {q \in rows : q.mac = mac}}

UpdateOwnerAccepted(rows, mac, user, name) ==
    /\ Cardinality({r \in rows : r.mac = mac}) <= 1
    /\ ConstraintsOk(UpdateOwner(rows, mac, user, name))

\* UPDATE devices SET name = $1 WHERE mac_address = $2
UpdateName(rows, mac, name) ==
    {r \in rows : r.mac # mac}
        \cup {[r EXCEPT !.name = name] : r \in {q \in rows : q.mac = mac}}

-----------------------------------------------------------------------------
(* Handler records *)

\* kind/pc: which listener branch runs and where it is suspended; the other
\* fields are the locals the continuation closes over.  overlap records that
\* another writer of the same MAC was in flight during this invocation.
Idle == [kind |-> "none", pc |-> "done", userUuid |-> NoUser, mac |-> NoMac,
         deviceName |-> NoName, branch |-> "none", existingUser |-> NoUser,
         existingOid |-> NoOid, ok |-> FALSE, error |-> "none",
         status |-> "none", payload |-> "none", idx |-> 0, written |-> 0,
         overlap |-> FALSE, topic |-> << >>, echo |-> 0]

InFlight(h) == h.pc \in {"query", "reply"}

\* no writer of the devices row of mac is suspended
Quiet(mac) ==
    \A j \in DOMAIN handlers :
        (handlers[j].kind \in {"register", "add-device"} /\ handlers[j].mac = mac)
            => ~InFlight(handlers[j])

\* a new writer of mac is dispatched: every suspended writer of mac overlaps it
MarkOverlap(hs, mac) ==
    [j \in DOMAIN hs |->
        IF hs[j].kind \in {"register", "add-device"} /\ hs[j].mac = mac /\ InFlight(hs[j])
        THEN [hs[j] EXCEPT !.overlap = TRUE] ELSE hs[j]]

NumKind(k) == Cardinality({i \in DOMAIN handlers : handlers[i].kind \in k})

RegKinds == {"register", "add-device"}
DataKinds == {"telemetry", "alarms", "images"}

Response(i, t, mac, name, status) ==
    [h |-> i, tenant |-> t, class |-> "register-response", mac |-> mac,
     name |-> name, status |-> status, messageId |-> NoId, recordCount |-> 0,
     error |-> "none"]

\* io.emit: an event sent to every connected socket
Event_Broadcast(i, room, ev, mac, name) ==
    [h |-> i, room |-> room, event |-> ev, mac |-> mac, name |-> name,
     to |-> UNION {rooms[r] : r \in DOMAIN rooms}]

\* io.to(room).emit: the event goes to the sockets that are in the room now
Event(i, room, ev, mac, name) ==
    [h |-> i, room |-> room, event |-> ev, mac |-> mac, name |-> name,
     to |-> rooms[room]]

-----------------------------------------------------------------------------
Init ==
    /\ devices = {}
    /\ telemetry = << >>
    /\ alarms = << >>
    /\ images = << >>
    /\ files = {}
    /\ users = [t \in Tenants |-> << >>]
    /\ handlers = << >>
    /\ published = << >>
    /\ emitted = << >>
    /\ rooms = [t \in Tenants |-> {}]

-----------------------------------------------------------------------------
(* Registration: topic /{tenant}/devices, payload {name?, macAddress?}      *)

\* the branch chosen from the cache lookup
RegBranch(cache, t, mac, name) ==
    LET k == FindOwner(cache, mac, 1) IN
    IF k = 0 THEN "create"
    ELSE IF UserOrder[k] # t THEN "reassign"
    ELSE IF cache[t][FindDevice(cache[t], mac)].name # name THEN "rename"
    ELSE "unchanged"

\* the synchronous part of the listener, up to the first pool.query
RegisterFrom(base, t, name, macAddress) ==
    /\ LET i == Len(handlers) + 1
           mac == Canon(macAddress)
           k == FindOwner(users, mac, 1)
           owner == IF k = 0 THEN NoUser ELSE UserOrder[k]
           oid == IF k = 0 THEN NoOid
                  ELSE users[owner][FindDevice(users[owner], mac)].oid
           branch == RegBranch(users, t, mac, name)
           h == [base EXCEPT !.kind = "register", !.userUuid = t,
                             !.payload = [name |-> name, macAddress |-> macAddress]]
           found == [h EXCEPT !.deviceName = name, !.mac = mac, !.branch = branch,
                              !.existingUser = owner, !.existingOid = oid,
                              !.overlap = ~Quiet(mac)]
       IN
       IF name = NoName
       THEN \* `Device-${macAddress}` reads macAddress before its declaration
            /\ handlers' = Append(handlers, [h EXCEPT !.pc = "threw"])
            /\ UNCHANGED published
       ELSE IF macAddress = NoMac
       THEN \* "MAC address required": the message is dropped
            /\ handlers' = Append(handlers, h)
            /\ UNCHANGED published
       ELSE IF branch = "unchanged"
       THEN /\ handlers' = Append(MarkOverlap(handlers, mac),
                                  [found EXCEPT !.status = "unchanged"])
            /\ published' = Append(published, Response(i, t, mac, name, "unchanged"))
       ELSE /\ handlers' = Append(MarkOverlap(handlers, mac),
                                  [found EXCEPT !.pc = "query"])
            /\ UNCHANGED published
    /\ UNCHANGED <<rooms, devices, telemetry, alarms, images, files, users, emitted>>

Register(t, name, macAddress) == RegisterFrom(Idle, t, name, macAddress)

\* whether the store accepts the statement of a suspended registration
RegStatementAccepted(h) ==
    CASE h.branch = "create" ->
            InsertDeviceAccepted(devices, h.mac, h.userUuid, h.deviceName)
      [] h.branch = "reassign" ->
            UpdateOwnerAccepted(devices, h.mac, h.userUuid, h.deviceName)
      [] OTHER -> TRUE

\* the rows of devices after the statement
RegStatementResult(h) ==
    CASE h.branch = "create" -> InsertDevice(devices, h.mac, h.userUuid, h.deviceName)
      [] h.branch = "reassign" -> UpdateOwner(devices, h.mac, h.userUuid, h.deviceName)
      [] OTHER -> UpdateName(devices, h.mac, h.deviceName)

\* a reassignment that also re-attributes the history of the device
RegStoreHistory_Moves(i) ==
    LET h == handlers[i]
        moved(rows) == [j \in DOMAIN rows |->
                          IF h.branch = "reassign" /\ rows[j].mac = h.mac
                          THEN [rows[j] EXCEPT !.user = h.userUuid] ELSE rows[j]]
    IN /\ telemetry' = moved(telemetry)
       /\ alarms' = moved(alarms)
       /\ images' = moved(images)
       /\ UNCHANGED files

\* the statements of a registration name table devices only
RegStoreHistory(i) == UNCHANGED <<telemetry, alarms, images, files>>

\* the store executes the pending statement of a registration or an
\* add-device request; fail is a failure of the store itself
RegStore(i, fail) ==
    /\ handlers[i].kind \in {"register", "add-device"}
    /\ handlers[i].pc = "query"
    /\ LET h == handlers[i]
           accepted == RegStatementAccepted(h)
           ok == ~fail /\ accepted IN
       /\ devices' = IF ok THEN RegStatementResult(h) ELSE devices
       /\ handlers' = [handlers EXCEPT
                          ![i].pc = "reply", ![i].ok = ok,
                          ![i].error = IF ok THEN "none"
                                       ELSE IF fail THEN "store unavailable"
                                       ELSE "duplicate key"]
    /\ RegStoreHistory(i)
    /\ UNCHANGED <<rooms, users, published, emitted>>

\* a cache update that leaves the device in the list of its previous owner
RegCacheUpdate_KeepOld(cache, i, h) ==
    [cache EXCEPT ![h.userUuid] =
        Append(@, [macAddress |-> h.mac, name |-> h.deviceName, oid |-> i])]

\* the cache update of a successful registration
RegCacheUpdate(cache, i, h) ==
    LET new == [macAddress |-> h.mac, name |-> h.deviceName, oid |-> i] IN
    CASE h.branch = "reassign" ->
            LET c1 == [cache EXCEPT ![h.existingUser] = WithoutMac(@, h.mac)]
            IN [c1 EXCEPT ![h.userUuid] = Append(@, new)]
      [] h.branch = "rename" ->
            [t \in Tenants |->
                [j \in DOMAIN cache[t] |->
                    IF cache[t][j].oid = h.existingOid
                    THEN [cache[t][j] EXCEPT !.name = h.deviceName]
                    ELSE cache[t][j]]]
      [] OTHER -> [cache EXCEPT ![h.userUuid] = Append(@, new)]

\* a status that names the branch whatever the store answered
RegStatus_Optimistic(h) ==
    CASE h.branch = "create" -> "created"
      [] h.branch = "reassign" -> "reassigned"
      [] OTHER -> "name_updated"

\* status of the response: the catch blocks publish "error"
RegStatus(h) ==
    IF ~h.ok THEN "error"
    ELSE CASE h.branch = "create" -> "created"
           [] h.branch = "reassign" -> "reassigned"
           [] OTHER -> "name_updated"

\* the continuation after the await / the .then and .catch callbacks
RegReply(i) ==
    /\ handlers[i].kind = "register"
    /\ handlers[i].pc = "reply"
    /\ LET h == handlers[i] IN
       /\ users' = IF h.ok THEN RegCacheUpdate(users, i, h) ELSE users
       /\ published' = Append(published,
                              [Response(i, h.userUuid, h.mac, h.deviceName, RegStatus(h))
                                  EXCEPT !.error = h.error])
       /\ emitted' = IF h.ok /\ h.branch \in {"create", "reassign"}
                     THEN Append(emitted, Event(i, h.userUuid, "device-registered",
                                                h.mac, h.deviceName))
                     ELSE emitted
       /\ handlers' = [handlers EXCEPT ![i].pc = "done", ![i].status = RegStatus(h)]
    /\ UNCHANGED <<rooms, devices, telemetry, alarms, images, files>>

-----------------------------------------------------------------------------
(* REST POST /add-device *)

AddDevice(t, name, macAddress) ==
    /\ LET mac == Canon(macAddress) IN
       handlers' = Append(MarkOverlap(handlers, mac),
          [Idle EXCEPT !.kind = "add-device", !.pc = "query", !.userUuid = t,
                       !.deviceName = name, !.mac = mac, !.branch = "create",
                       !.overlap = ~Quiet(mac)])
    /\ UNCHANGED <<rooms, devices, telemetry, alarms, images, files, users, published, emitted>>

AddDeviceReply(i) ==
    /\ handlers[i].kind = "add-device"
    /\ handlers[i].pc = "reply"
    /\ LET h == handlers[i] IN
       /\ users' = IF h.ok THEN RegCacheUpdate(users, i, h) ELSE users
       /\ handlers' = [handlers EXCEPT ![i].pc = "done",
                                       ![i].status = IF h.ok THEN "200" ELSE "500"]
    /\ UNCHANGED <<rooms, devices, telemetry, alarms, images, files, published, emitted>>

-----------------------------------------------------------------------------
(* Per-device messages: topic /{tenant}/devices/{mac}/{class}              *)

Unknown == "Unknown"
Undefined == -1          \* a recordCount that JSON.stringify leaves out
NumStrLen == 2           \* length of the numeric string "25"
TextLen == 3             \* length of the non-numeric string "abc"

Ack(i, t, mac, id, status, count) ==
    [h |-> i, tenant |-> t, class |-> "commands", mac |-> mac, name |-> NoName,
     status |-> status, messageId |-> id, recordCount |-> count]

\* const device = user.devices.find(...); device ? device.name : "Unknown"
DeviceNameOf(cache, t, mac) ==
    LET j == FindDevice(cache[t], mac) IN
    IF j = 0 THEN Unknown ELSE cache[t][j].name

RECURSIVE NextGood(_, _)
\* the next entry of a batch, from position k on, that is an array of length >= 2
NextGood(entries, k) ==
    IF k > Len(entries) THEN 0
    ELSE IF entries[k] \in {"good", "long"} THEN k
    ELSE NextGood(entries, k + 1)

\* isBatch && Array.isArray(data.value)
IsBatchArray(p) == p.isBatch /\ p.value = "array"

\* recordCount: isBatch ? data.value.length : 1
RecordCount(p) ==
    IF ~p.isBatch THEN 1
    ELSE CASE p.value = "array" -> Len(p.entries)
           [] p.value = "numstr" -> NumStrLen
           [] p.value = "text" -> TextLen
           [] OTHER -> Undefined

\* typeof value === 'number' ? value : parseFloat(value)
ParsedValue(v) == IF v \in {"number", "numstr"} THEN "number" ELSE "NaN"

\* a store that keeps no unit
StoredUnit_Dropped(u) == "null"

\* data.unit || null
StoredUnit(u) == IF u \in {"absent", "empty"} THEN "null" ELSE u

\* a .then that acknowledges whether or not result.messageId is set
TelemetryThen_AlwaysAck(i, h) ==
    /\ emitted' = Append(emitted, Event(i, h.userUuid, "telemetry", h.mac, h.deviceName))
    /\ published' = Append(published, Ack(i, h.userUuid, h.mac, h.payload.messageId,
                                          "success", RecordCount(h.payload)))

\* .then of storeTelemetry: live event, then the acknowledgment
TelemetryThen(i, h) ==
    /\ emitted' = Append(emitted, Event(i, h.userUuid, "telemetry", h.mac, h.deviceName))
    /\ published' = IF h.payload.messageId # NoId
                    THEN Append(published, Ack(i, h.userUuid, h.mac, h.payload.messageId,
                                               "success", RecordCount(h.payload)))
                    ELSE published

\* a .catch that only logs
TelemetryCatch_Silent(i, h) == UNCHANGED <<published, emitted>>

\* .catch of storeTelemetry: re-parse the message, acknowledge the failure
TelemetryCatch(i, h) ==
    /\ published' = IF h.payload.json /\ h.payload.messageId # NoId
                    THEN Append(published, Ack(i, h.userUuid, h.mac, h.payload.messageId,
                                               "error", Undefined))
                    ELSE published
    /\ UNCHANGED emitted

\* listener and storeTelemetry up to the first INSERT
TelemetryFrom(base, t, mac, p) ==
    /\ LET i == Len(handlers) + 1
           h == [base EXCEPT !.kind = "telemetry", !.userUuid = t, !.mac = mac,
                             !.deviceName = DeviceNameOf(users, t, mac), !.payload = p]
           first == IF IsBatchArray(p) THEN NextGood(p.entries, 1) ELSE 0
       IN
       IF ~p.json \/ ~p.sensor \/ p.value = "absent"
       THEN /\ handlers' = Append(handlers, [h EXCEPT !.status = "error"])
            /\ TelemetryCatch(i, h)
       ELSE IF IsBatchArray(p) /\ first = 0
       THEN /\ handlers' = Append(handlers, [h EXCEPT !.status = "success"])
            /\ TelemetryThen(i, h)
       ELSE /\ handlers' = Append(handlers, [h EXCEPT !.pc = "query", !.idx = first])
            /\ UNCHANGED <<published, emitted>>
    /\ UNCHANGED <<rooms, devices, telemetry, alarms, images, files, users>>

Telemetry(t, mac, p) == TelemetryFrom(Idle, t, mac, p)

\* a store step that registers the device of the topic on the fly
DataStoreDevices_Upsert(i) ==
    devices' = InsertDevice(devices, handlers[i].mac, handlers[i].userUuid,
                            handlers[i].deviceName)

\* the INSERTs of storeTelemetry, storeAlarm and handleImageMessage name the
\* tables telemetry, alarms and images only
DataStoreDevices(i) == UNCHANGED devices

\* INSERT INTO telemetry (...) of the pending reading
TelemetryStore(i, fail) ==
    /\ handlers[i].kind = "telemetry"
    /\ handlers[i].pc = "query"
    /\ LET h == handlers[i]
           p == h.payload
           row == [h |-> i, user |-> h.userUuid, mac |-> h.mac, name |-> h.deviceName,
                   sensor |-> p.sensor, unit |-> StoredUnit(p.unit),
                   value |-> IF h.idx = 0 THEN ParsedValue(p.value) ELSE "number",
                   timestamp |-> IF h.idx = 0 THEN "now" ELSE "entry",
                   entry |-> h.idx, messageId |-> p.messageId]
       IN /\ telemetry' = IF fail THEN telemetry ELSE Append(telemetry, row)
          /\ handlers' = [handlers EXCEPT
                             ![i].pc = "reply", ![i].ok = ~fail,
                             ![i].error = IF fail THEN "store unavailable" ELSE "none",
                             ![i].written = IF fail THEN @ ELSE @ + 1]
    /\ DataStoreDevices(i)
    /\ UNCHANGED <<rooms, alarms, images, files, users, published, emitted>>

\* storeTelemetry after an INSERT returned, and the callbacks of the listener
TelemetryReply(i) ==
    /\ handlers[i].kind = "telemetry"
    /\ handlers[i].pc = "reply"
    /\ LET h == handlers[i]
           p == h.payload
           more == IF h.idx = 0 THEN 0 ELSE NextGood(p.entries, h.idx + 1)
       IN
       IF ~h.ok
       THEN /\ handlers' = [handlers EXCEPT ![i].pc = "done", ![i].status = "error"]
            /\ TelemetryCatch(i, h)
       ELSE IF more # 0
       THEN /\ handlers' = [handlers EXCEPT ![i].pc = "query", ![i].idx = more]
            /\ UNCHANGED <<published, emitted>>
       ELSE IF p.isBatch /\ p.value = "null"
       THEN \* data.value.length of null throws inside the try block
            /\ handlers' = [handlers EXCEPT ![i].pc = "done", ![i].status = "error",
                                            ![i].error = "TypeError"]
            /\ TelemetryCatch(i, h)
       ELSE /\ handlers' = [handlers EXCEPT ![i].pc = "done", ![i].status = "success"]
            /\ TelemetryThen(i, h)
    /\ UNCHANGED <<rooms, devices, telemetry, alarms, images, files, users>>

\* alarms: the live event is emitted before storeAlarm is called
AlarmFrom(base, t, mac, p) ==
    /\ LET i == Len(handlers) + 1
           name == DeviceNameOf(users, t, mac) IN
       IF p.json /\ p.isNull
       THEN \* alarmData is null: alarmData.severity throws a TypeError
            /\ handlers' = Append(handlers,
                  [base EXCEPT !.kind = "alarms", !.pc = "threw", !.userUuid = t,
                               !.mac = mac, !.deviceName = name, !.payload = p,
                               !.error = "TypeError"])
            /\ UNCHANGED emitted
       ELSE /\ handlers' = Append(handlers,
                  [base EXCEPT !.kind = "alarms", !.pc = "query", !.userUuid = t,
                               !.mac = mac, !.deviceName = name, !.payload = p])
            /\ emitted' = Append(emitted, Event(i, t, "alarm", mac, name))
    /\ UNCHANGED <<rooms, devices, telemetry, alarms, images, files, users, published>>

Alarm(t, mac, p) == AlarmFrom(Idle, t, mac, p)

\* INSERT INTO alarms (...)
AlarmStore(i, fail) ==
    /\ handlers[i].kind = "alarms"
    /\ handlers[i].pc = "query"
    /\ LET h == handlers[i]
           row == [h |-> i, user |-> h.userUuid, mac |-> h.mac, name |-> h.deviceName,
                   severity |-> IF h.payload.json /\ h.payload.severity # "absent"
                                THEN h.payload.severity ELSE "info",
                   message |-> IF h.payload.json /\ h.payload.message # "absent"
                               THEN h.payload.message ELSE "raw",
                   acknowledged |-> FALSE, acknowledged_at |-> 0]
       IN /\ alarms' = IF fail THEN alarms ELSE Append(alarms, row)
          /\ handlers' = [handlers EXCEPT
                             ![i].pc = "reply", ![i].ok = ~fail,
                             ![i].error = IF fail THEN "store unavailable" ELSE "none",
                             ![i].written = IF fail THEN @ ELSE @ + 1]
    /\ DataStoreDevices(i)
    /\ UNCHANGED <<rooms, telemetry, images, files, users, published, emitted>>

\* storeAlarm(alarm).catch(log)
AlarmReply(i) ==
    /\ handlers[i].kind = "alarms"
    /\ handlers[i].pc = "reply"
    /\ handlers' = [handlers EXCEPT ![i].pc = "done",
                       ![i].status = IF handlers[i].ok THEN "success" ELSE "error"]
    /\ UNCHANGED <<rooms, devices, telemetry, alarms, images, files, users, published, emitted>>

\* a check that stops at the JSON parse
ImageRejected_JsonOnly(p) == ~p.json

\* JSON.parse throws, or !data.imageId || !data.imageData
ImageRejected(p) == ~p.json \/ ~p.imageId \/ p.imageData = "absent"

\* listener and handleImageMessage up to the INSERT: the file is written first
ImageFrom(base, t, mac, p) ==
    /\ LET i == Len(handlers) + 1
           h == [base EXCEPT !.kind = "images", !.userUuid = t, !.mac = mac,
                             !.deviceName = DeviceNameOf(users, t, mac), !.payload = p]
       IN
       IF ImageRejected(p)
       THEN /\ handlers' = Append(handlers, [h EXCEPT !.status = "error"])
            /\ UNCHANGED files
       ELSE /\ handlers' = Append(handlers, [h EXCEPT !.pc = "query"])
            /\ files' = files \cup {[h |-> i, user |-> t, mac |-> mac]}
    /\ UNCHANGED <<rooms, devices, telemetry, alarms, images, users, published, emitted>>

Image(t, mac, p) == ImageFrom(Idle, t, mac, p)

\* INSERT INTO images (...)
ImageStore(i, fail) ==
    /\ handlers[i].kind = "images"
    /\ handlers[i].pc = "query"
    /\ LET h == handlers[i]
           row == [h |-> i, user |-> h.userUuid, mac |-> h.mac, name |-> h.deviceName,
                   file |-> i, messageId |-> h.payload.messageId]
       IN /\ images' = IF fail THEN images ELSE Append(images, row)
          /\ handlers' = [handlers EXCEPT
                             ![i].pc = "reply", ![i].ok = ~fail,
                             ![i].error = IF fail THEN "store unavailable" ELSE "none",
                             ![i].written = IF fail THEN @ ELSE @ + 1]
    /\ DataStoreDevices(i)
    /\ UNCHANGED <<rooms, telemetry, alarms, files, users, published, emitted>>

\* .then of handleImageMessage: the live event, then the acknowledgment whose
\* topic names deviceId, an identifier declared nowhere: the ReferenceError is
\* caught by the .catch, which only logs.  .catch of a failure: only logs.
ImageReply(i) ==
    /\ handlers[i].kind = "images"
    /\ handlers[i].pc = "reply"
    /\ LET h == handlers[i] IN
       /\ emitted' = IF h.ok
                     THEN Append(emitted, Event(i, h.userUuid, "image", h.mac, h.deviceName))
                     ELSE emitted
       /\ handlers' = [handlers EXCEPT
                          ![i].pc = "done",
                          ![i].status = IF h.ok THEN "success" ELSE "error",
                          ![i].error = IF h.ok /\ h.payload.messageId # NoId
                                       THEN "ReferenceError" ELSE @]
    /\ UNCHANGED <<rooms, devices, telemetry, alarms, images, files, users, published>>

-----------------------------------------------------------------------------
(* Payloads *)

MaxBatch == 2     \* entries of a batch

Batches == UNION {[1..n -> {"good", "short"}] : n \in 0..MaxBatch}

TelemetryPayloads ==
    {[json |-> FALSE, sensor |-> FALSE, value |-> "absent", entries |-> << >>,
      isBatch |-> FALSE, messageId |-> NoId, unit |-> "absent"]}
    \cup {[json |-> TRUE, sensor |-> s, value |-> v, entries |-> << >>,
           isBatch |-> b, messageId |-> id, unit |-> "absent"] :
             s \in BOOLEAN, v \in {"absent", "number", "numstr", "text", "null"},
             b \in BOOLEAN, id \in MessageIds \cup {NoId}}
    \cup {[json |-> TRUE, sensor |-> s, value |-> "array", entries |-> e,
           isBatch |-> b, messageId |-> id, unit |-> "absent"] :
             s \in BOOLEAN, e \in Batches, b \in BOOLEAN, id \in MessageIds \cup {NoId}}

\* isNull: the text is the JSON literal null; "bogus" is a severity outside
\* the documented set
AlarmPayloads ==
    {[json |-> FALSE, isNull |-> FALSE, severity |-> "absent", message |-> "absent"],
     [json |-> TRUE, isNull |-> TRUE, severity |-> "absent", message |-> "absent"]}
    \cup {[json |-> TRUE, isNull |-> FALSE, severity |-> s, message |-> m] :
             s \in {"critical", "bogus", "absent"}, m \in {"text", "absent"}}

ImagePayloads ==
    {[json |-> FALSE, imageId |-> FALSE, imageData |-> "absent", messageId |-> NoId]}
    \cup {[json |-> TRUE, imageId |-> d, imageData |-> b, messageId |-> id] :
             d \in BOOLEAN, b \in {"absent", "valid", "garbled"},
             id \in MessageIds \cup {NoId}}

TopicMacs == {Canon(m) : m \in MacInputs}

-----------------------------------------------------------------------------
(* Specification of the registration protocol: registrations and REST      *)
(* add-device requests of one device with well-formed payloads, the store  *)
(* rejecting a statement only for a duplicate key                          *)

RaceMac == <<"a", ":", "b">>

RegRoom == NumKind(RegKinds) < MaxReg

Next ==
    \/ /\ RegRoom
       /\ \E t \in Tenants, n \in Names : Register(t, n, RaceMac)
    \/ \E i \in DOMAIN handlers : RegStore(i, FALSE)
    \/ \E i \in DOMAIN handlers : RegReply(i)
    \/ /\ RegRoom
       /\ \E t \in Tenants, n \in Names : AddDevice(t, n, RaceMac)
    \/ \E i \in DOMAIN handlers : AddDeviceReply(i)

Spec == Init /\ [][Next]_vars

(* Registrations of one device racing over a longer history *)

MaxRace == 4

NextRace ==
    \/ /\ NumKind(RegKinds) < MaxRace
       /\ \E t \in Tenants, n \in Names : Register(t, n, RaceMac)
    \/ \E i \in DOMAIN handlers : RegStore(i, FALSE)
    \/ \E i \in DOMAIN handlers : RegReply(i)

SpecRace == Init /\ [][NextRace]_vars

(* Registration payloads, including those without a name or a MAC address *)

MaxPayloadReg == 2

NextPayload ==
    \/ /\ NumKind(RegKinds) < MaxPayloadReg
       /\ \E t \in Tenants, n \in Names \cup {NoName}, m \in MacInputs \cup {NoMac} :
             Register(t, n, m)
    \/ \E i \in DOMAIN handlers, fail \in BOOLEAN : RegStore(i, fail)
    \/ \E i \in DOMAIN handlers : RegReply(i)

SpecPayload == Init /\ [][NextPayload]_vars

(* Per-device messages of every payload shape *)

NextData ==
    \/ /\ NumKind(DataKinds) < MaxData
       /\ \E t \in Tenants, m \in TopicMacs, p \in TelemetryPayloads : Telemetry(t, m, p)
    \/ \E i \in DOMAIN handlers, fail \in BOOLEAN : TelemetryStore(i, fail)
    \/ \E i \in DOMAIN handlers : TelemetryReply(i)
    \/ /\ NumKind(DataKinds) < MaxData
       /\ \E t \in Tenants, m \in TopicMacs, p \in AlarmPayloads : Alarm(t, m, p)
    \/ \E i \in DOMAIN handlers, fail \in BOOLEAN : AlarmStore(i, fail)
    \/ \E i \in DOMAIN handlers : AlarmReply(i)
    \/ /\ NumKind(DataKinds) < MaxData
       /\ \E t \in Tenants, m \in TopicMacs, p \in ImagePayloads : Image(t, m, p)
    \/ \E i \in DOMAIN handlers, fail \in BOOLEAN : ImageStore(i, fail)
    \/ \E i \in DOMAIN handlers : ImageReply(i)

SpecData == Init /\ [][NextData]_vars

(* Telemetry messages of every payload shape, units and batch entries of  *)
(* any arity included                                                     *)

MaxTelemetry == 1     \* telemetry messages

Units == {"absent", "empty", "C"}
EntryKinds == {"good", "short", "long"}

Readings ==
    {[json |-> FALSE, sensor |-> FALSE, value |-> "absent", entries |-> << >>,
      isBatch |-> FALSE, messageId |-> NoId, unit |-> "absent"]}
    \cup {[json |-> TRUE, sensor |-> FALSE, value |-> "number", entries |-> << >>,
           isBatch |-> FALSE, messageId |-> id, unit |-> "C"] :
             id \in MessageIds \cup {NoId}}
    \cup {[json |-> TRUE, sensor |-> TRUE, value |-> "absent", entries |-> << >>,
           isBatch |-> FALSE, messageId |-> id, unit |-> "C"] :
             id \in MessageIds \cup {NoId}}
    \cup {[json |-> TRUE, sensor |-> TRUE, value |-> v, entries |-> << >>,
           isBatch |-> b, messageId |-> id, unit |-> u] :
             v \in {"number", "numstr", "text", "null"}, b \in BOOLEAN,
             id \in MessageIds \cup {NoId}, u \in Units}
    \cup {[json |-> TRUE, sensor |-> TRUE, value |-> "array", entries |-> e,
           isBatch |-> TRUE, messageId |-> id, unit |-> "C"] :
             e \in UNION {[1..n -> EntryKinds] : n \in 0..MaxBatch},
             id \in MessageIds \cup {NoId}}

NextTelemetry ==
    \/ /\ NumKind(DataKinds) < MaxTelemetry
       /\ \E t \in Tenants, m \in TopicMacs, p \in Readings : Telemetry(t, m, p)
    \/ \E i \in DOMAIN handlers, fail \in BOOLEAN : TelemetryStore(i, fail)
    \/ \E i \in DOMAIN handlers : TelemetryReply(i)

SpecTelemetry == Init /\ [][NextTelemetry]_vars

(* Registrations interleaved with per-device messages, the store rejecting *)
(* a statement only for a duplicate key                                  *)

MaxMixReg == 2
MaxMixData == 1

MixTelemetry == [json |-> TRUE, sensor |-> TRUE, value |-> "number", entries |-> << >>,
                 isBatch |-> FALSE, messageId |-> "m1", unit |-> "absent"]
MixAlarm == [json |-> TRUE, isNull |-> FALSE, severity |-> "critical", message |-> "text"]
MixImage == [json |-> TRUE, imageId |-> TRUE, imageData |-> "valid", messageId |-> NoId]

\* the tenant whose topics the device publishes on, and the name it registers with
MixTenant == "A"
MixName == "N1"

NextMix ==
    \/ /\ NumKind(RegKinds) < MaxMixReg
       /\ \E t \in Tenants : Register(t, MixName, RaceMac)
    \/ \E i \in DOMAIN handlers : RegStore(i, FALSE)
    \/ \E i \in DOMAIN handlers : RegReply(i)
    \/ /\ NumKind(DataKinds) < MaxMixData
       /\ Telemetry(MixTenant, Canon(RaceMac), MixTelemetry)
    \/ \E i \in DOMAIN handlers : TelemetryStore(i, FALSE)
    \/ \E i \in DOMAIN handlers : TelemetryReply(i)
    \/ /\ NumKind(DataKinds) < MaxMixData
       /\ Alarm(MixTenant, Canon(RaceMac), MixAlarm)
    \/ \E i \in DOMAIN handlers : AlarmStore(i, FALSE)
    \/ \E i \in DOMAIN handlers : AlarmReply(i)
    \/ /\ NumKind(DataKinds) < MaxMixData
       /\ Image(MixTenant, Canon(RaceMac), MixImage)
    \/ \E i \in DOMAIN handlers : ImageStore(i, FALSE)
    \/ \E i \in DOMAIN handlers : ImageReply(i)

SpecMix == Init /\ [][NextMix]_vars

-----------------------------------------------------------------------------
(* The listener from the topic on: parts = topic.split("/"), so that       *)
(* "/A/devices" is <<"", "A", "devices">>                                 *)

MaxRouted == 2     \* messages delivered by the broker

UnknownTenant == "Z"
RoutedClasses == {"telemetry", "alarms", "images"}

TopicMac == Canon(RaceMac)

Topics ==
    {<<"">>, <<"", "A">>, <<"", "A", "devices", TopicMac>>,
     <<"", "A", "devices", TopicMac, "commands">>,
     <<"", "A", "devices", TopicMac, "status">>,
     <<"", UnknownTenant, "devices">>,
     <<"", UnknownTenant, "devices", TopicMac, "telemetry">>}
    \cup {<<"", t, "devices">> : t \in Tenants}
    \cup {<<"", t, "devices", TopicMac, c>> : t \in Tenants, c \in RoutedClasses}

\* a router that takes every class it does not know for telemetry
Route_AnyClass(cache, parts) ==
    IF Len(parts) = 3 /\ parts[3] = "devices"
    THEN IF parts[2] \in DOMAIN cache THEN "register" ELSE "drop"
    ELSE IF Len(parts) >= 5 /\ parts[3] = "devices"
    THEN IF parts[2] \notin DOMAIN cache THEN "drop"
         ELSE IF parts[5] \in {"alarms", "images"} THEN parts[5]
         ELSE "telemetry"
    ELSE "drop"

\* the guards of the listener: parts.length === 3 && parts[2] === "devices",
\* parts.length >= 5 && parts[2] === "devices", users.get(parts[1]), messageType
Route(cache, parts) ==
    IF Len(parts) = 3 /\ parts[3] = "devices"
    THEN IF parts[2] \in DOMAIN cache THEN "register" ELSE "drop"
    ELSE IF Len(parts) >= 5 /\ parts[3] = "devices"
    THEN IF parts[2] \notin DOMAIN cache THEN "drop"
         ELSE IF parts[5] \in RoutedClasses THEN parts[5]
         ELSE "drop"
    ELSE "drop"

Base(parts) == [Idle EXCEPT !.topic = parts]

\* no guard of the listener holds, or the tenant is not in the users map
Drop(parts) ==
    /\ handlers' = Append(handlers, [Base(parts) EXCEPT !.kind = "dropped"])
    /\ UNCHANGED <<devices, telemetry, alarms, images, files, users, published,
                   emitted, rooms>>

\* mqttClient.on("message", (topic, message) => ...)
Receive(parts) ==
    LET r == Route(users, parts) IN
    \/ r = "register" /\ RegisterFrom(Base(parts), parts[2], MixName, RaceMac)
    \/ r = "telemetry" /\ TelemetryFrom(Base(parts), parts[2], parts[4], MixTelemetry)
    \/ r = "alarms" /\ AlarmFrom(Base(parts), parts[2], parts[4], MixAlarm)
    \/ r = "images" /\ ImageFrom(Base(parts), parts[2], parts[4], MixImage)
    \/ r = "drop" /\ Drop(parts)

NextRouter ==
    \/ /\ Len(handlers) < MaxRouted
       /\ \E parts \in Topics : Receive(parts)
    \/ \E i \in DOMAIN handlers : RegStore(i, FALSE)
    \/ \E i \in DOMAIN handlers : RegReply(i)
    \/ \E i \in DOMAIN handlers, fail \in BOOLEAN : TelemetryStore(i, fail)
    \/ \E i \in DOMAIN handlers : TelemetryReply(i)
    \/ \E i \in DOMAIN handlers, fail \in BOOLEAN : AlarmStore(i, fail)
    \/ \E i \in DOMAIN handlers : AlarmReply(i)
    \/ \E i \in DOMAIN handlers, fail \in BOOLEAN : ImageStore(i, fail)
    \/ \E i \in DOMAIN handlers : ImageReply(i)

SpecRouter == Init /\ [][NextRouter]_vars

-----------------------------------------------------------------------------
(* The subscription to "#": the broker delivers the publications of the    *)
(* server back to its own listener                                         *)

MaxLoop == 2     \* messages published by devices

\* a response published on the topic the registrations arrive on
ResponseTopic_Registration(t) == <<"", t, "devices">>

\* `/${userUuid}/devices/register-response`
ResponseTopic(t) == <<"", t, "devices", <<"register-response">>>>

\* `/${userUuid}/devices/${deviceMacAddress}/commands`
AckTopic(t, mac) == <<"", t, "devices", mac, "commands">>

PublishedTopic(pub) ==
    IF pub.class = "register-response" THEN ResponseTopic(pub.tenant)
    ELSE AckTopic(pub.tenant, pub.mac)

\* the JSON text of a response or an acknowledgment, read as the payload of a
\* telemetry, alarm or image message: it has a messageId at most
EchoTelemetry(pub) ==
    [json |-> TRUE, sensor |-> FALSE, value |-> "absent", entries |-> << >>,
     isBatch |-> FALSE, messageId |-> pub.messageId, unit |-> "absent"]

EchoAlarm == [json |-> TRUE, isNull |-> FALSE, severity |-> "absent", message |-> "absent"]

EchoImage(pub) ==
    [json |-> TRUE, imageId |-> FALSE, imageData |-> "absent", messageId |-> pub.messageId]

LoopTopics ==
    {<<"", t, "devices">> : t \in Tenants}
    \cup {<<"", t, "devices", TopicMac, c>> : t \in Tenants, c \in RoutedClasses}

\* publication k has been delivered back to the listener
Delivered(k) == \E i \in DOMAIN handlers : handlers[i].echo = k

FromDevices == {i \in DOMAIN handlers : handlers[i].echo = 0}

\* the listener runs on publication k of the server itself
Deliver(k) ==
    /\ ~Delivered(k)
    /\ LET pub == published[k]
           parts == PublishedTopic(pub)
           base == [Base(parts) EXCEPT !.echo = k]
           r == Route(users, parts)
       IN
       \/ /\ r = "drop"
          /\ handlers' = Append(handlers, [base EXCEPT !.kind = "dropped"])
          /\ UNCHANGED <<devices, telemetry, alarms, images, files, users,
                         published, emitted, rooms>>
       \/ r = "register" /\ RegisterFrom(base, parts[2], pub.name, pub.mac)
       \/ r = "telemetry" /\ TelemetryFrom(base, parts[2], parts[4], EchoTelemetry(pub))
       \/ r = "alarms" /\ AlarmFrom(base, parts[2], parts[4], EchoAlarm)
       \/ r = "images" /\ ImageFrom(base, parts[2], parts[4], EchoImage(pub))

NextLoop ==
    \/ /\ Cardinality(FromDevices) < MaxLoop
       /\ \E parts \in LoopTopics : Receive(parts)
    \/ \E k \in DOMAIN published : Deliver(k)
    \/ \E i \in DOMAIN handlers : RegStore(i, FALSE)
    \/ \E i \in DOMAIN handlers : RegReply(i)
    \/ \E i \in DOMAIN handlers : TelemetryStore(i, FALSE)
    \/ \E i \in DOMAIN handlers : TelemetryReply(i)
    \/ \E i \in DOMAIN handlers : AlarmStore(i, FALSE)
    \/ \E i \in DOMAIN handlers : AlarmReply(i)
    \/ \E i \in DOMAIN handlers : ImageStore(i, FALSE)
    \/ \E i \in DOMAIN handlers : ImageReply(i)

SpecLoop == Init /\ [][NextLoop]_vars

-----------------------------------------------------------------------------
(* Live events and the viewers that join and leave the tenants' rooms      *)

MaxLive == 2     \* messages delivered by the broker

\* socket.on("join", (uuid) => socket.join(uuid))
Join(v, room) ==
    /\ v \notin rooms[room]
    /\ rooms' = [rooms EXCEPT ![room] = @ \cup {v}]
    /\ UNCHANGED <<devices, telemetry, alarms, images, files, users, handlers,
                   published, emitted>>

\* socket.on("disconnect"): the socket leaves every room it had joined
Disconnect(v) ==
    /\ \E r \in DOMAIN rooms : v \in rooms[r]
    /\ rooms' = [r \in DOMAIN rooms |-> rooms[r] \ {v}]
    /\ UNCHANGED <<devices, telemetry, alarms, images, files, users, handlers,
                   published, emitted>>

NextLive ==
    \/ \E v \in Viewers, t \in Tenants : Join(v, t)
    \/ \E v \in Viewers : Disconnect(v)
    \/ /\ Len(handlers) < MaxLive
       /\ \E t \in Tenants : Register(t, MixName, RaceMac)
    \/ \E i \in DOMAIN handlers : RegStore(i, FALSE)
    \/ \E i \in DOMAIN handlers : RegReply(i)
    \/ /\ Len(handlers) < MaxLive
       /\ \E t \in Tenants : Telemetry(t, TopicMac, MixTelemetry)
    \/ \E i \in DOMAIN handlers : TelemetryStore(i, FALSE)
    \/ \E i \in DOMAIN handlers : TelemetryReply(i)
    \/ /\ Len(handlers) < MaxLive
       /\ \E t \in Tenants : Alarm(t, TopicMac, MixAlarm)
    \/ \E i \in DOMAIN handlers : AlarmStore(i, FALSE)
    \/ \E i \in DOMAIN handlers : AlarmReply(i)
    \/ /\ Len(handlers) < MaxLive
       /\ \E t \in Tenants : Image(t, TopicMac, MixImage)
    \/ \E i \in DOMAIN handlers : ImageStore(i, FALSE)
    \/ \E i \in DOMAIN handlers : ImageReply(i)

SpecLive == Init /\ [][NextLive]_vars

-----------------------------------------------------------------------------
(* REST POST /alarms/:alarmId/acknowledge.  The id of an alarm row is its  *)
(* position in alarms; NOW() of a statement is the index of the request    *)
(* that issued it, 0 standing for NULL                                     *)

MaxAck == 2     \* acknowledge requests

Acknowledge(alarmId) ==
    /\ handlers' = Append(handlers,
          [Idle EXCEPT !.kind = "acknowledge", !.pc = "query", !.idx = alarmId])
    /\ UNCHANGED <<devices, telemetry, alarms, images, files, users, published,
                   emitted, rooms>>

\* UPDATE alarms SET acknowledged = true, acknowledged_at = NOW() WHERE id = $1
AcknowledgeStore(i, fail) ==
    /\ handlers[i].kind = "acknowledge"
    /\ handlers[i].pc = "query"
    /\ alarms' = IF fail THEN alarms
                 ELSE [k \in DOMAIN alarms |->
                         IF k = handlers[i].idx
                         THEN [alarms[k] EXCEPT !.acknowledged = TRUE,
                                                !.acknowledged_at = i]
                         ELSE alarms[k]]
    /\ handlers' = [handlers EXCEPT
                       ![i].pc = "reply", ![i].ok = ~fail,
                       ![i].error = IF fail THEN "store unavailable" ELSE "none"]
    /\ UNCHANGED <<devices, telemetry, images, files, users, published, emitted, rooms>>

\* res.json({status: "ok"}) / res.status(500)
AcknowledgeReply(i) ==
    /\ handlers[i].kind = "acknowledge"
    /\ handlers[i].pc = "reply"
    /\ handlers' = [handlers EXCEPT ![i].pc = "done",
                       ![i].status = IF handlers[i].ok THEN "200" ELSE "500"]
    /\ UNCHANGED <<devices, telemetry, alarms, images, files, users, published,
                   emitted, rooms>>

NextAck ==
    \/ /\ NumKind(DataKinds) < MaxData
       /\ \E t \in Tenants : Alarm(t, TopicMac, MixAlarm)
    \/ \E i \in DOMAIN handlers : AlarmStore(i, FALSE)
    \/ \E i \in DOMAIN handlers : AlarmReply(i)
    \/ /\ NumKind({"acknowledge"}) < MaxAck
       /\ \E id \in 1..(MaxData + 1) : Acknowledge(id)
    \/ \E i \in DOMAIN handlers, fail \in BOOLEAN : AcknowledgeStore(i, fail)
    \/ \E i \in DOMAIN handlers : AcknowledgeReply(i)

SpecAck == Init /\ [][NextAck]_vars

-----------------------------------------------------------------------------
(* Two devices: the store never answers the statements of the first one,   *)
(* the messages of the second one arrive while they are pending            *)

MaxSlow == 1      \* messages of the first device
MaxOther == 1     \* telemetry messages of the second device

OtherMac == <<"c", "_", "d">>

\* a listener that waits for the store before it returns
Blocking_Await(h) == h.pc = "query"

\* the listener is async and every pool.query is awaited or chained inside
\* it: a suspended invocation does not keep the client from calling the
\* listener for the next message
Blocking(h) == FALSE

Unblocked == \A j \in DOMAIN handlers : ~Blocking(handlers[j])

NumOn(mac) == Cardinality({i \in DOMAIN handlers : handlers[i].mac = mac})

SlowDispatch ==
    /\ NumOn(TopicMac) < MaxSlow
    /\ Unblocked
    /\ \/ Register(MixTenant, MixName, RaceMac)
       \/ Telemetry(MixTenant, TopicMac, MixTelemetry)
       \/ Alarm(MixTenant, TopicMac, MixAlarm)
       \/ Image(MixTenant, TopicMac, MixImage)

OtherDispatch ==
    /\ NumOn(OtherMac) < MaxOther
    /\ Unblocked
    /\ \E t \in Tenants : Telemetry(t, OtherMac, MixTelemetry)

\* the store and the continuation of a message of the second device
OtherStep ==
    \E i \in DOMAIN handlers :
        /\ handlers[i].mac = OtherMac
        /\ (TelemetryStore(i, FALSE) \/ TelemetryReply(i))

\* the store answers a statement of the first device after all
SlowStep ==
    \E i \in DOMAIN handlers :
        /\ handlers[i].mac = TopicMac
        /\ \/ RegStore(i, FALSE) \/ RegReply(i)
           \/ TelemetryStore(i, FALSE) \/ TelemetryReply(i)
           \/ AlarmStore(i, FALSE) \/ AlarmReply(i)
           \/ ImageStore(i, FALSE) \/ ImageReply(i)

NextNoBlock == SlowDispatch \/ OtherDispatch \/ OtherStep \/ SlowStep

\* the broker delivers the messages of the second device and the store
\* answers its statements; nothing is assumed of the first device
SpecNoBlock ==
    Init /\ [][NextNoBlock]_vars /\ WF_vars(OtherDispatch) /\ WF_vars(OtherStep)

-----------------------------------------------------------------------------
(* Two devices: the messages of the first one fail, the messages of the    *)
(* second one are valid and the store accepts their statements             *)

MaxFail == 2      \* failing messages of the first device

InvalidTelemetry == [MixTelemetry EXCEPT !.sensor = FALSE]

\* the process has not exited
Alive == \A j \in DOMAIN handlers : handlers[j].pc # "exited"

NumFailing == Cardinality({i \in DOMAIN handlers : handlers[i].mac # OtherMac})

\* a registration without a name (the listener throws), a reading without a
\* sensor (rejected), an alarm and an image (the store will fail)
FailDispatch ==
    /\ NumFailing < MaxFail
    /\ Alive
    /\ \/ Register(MixTenant, NoName, RaceMac)
       \/ Telemetry(MixTenant, TopicMac, InvalidTelemetry)
       \/ Alarm(MixTenant, TopicMac, MixAlarm)
       \/ Image(MixTenant, TopicMac, MixImage)

FailStep ==
    \E i \in DOMAIN handlers :
        /\ handlers[i].mac = TopicMac
        /\ Alive
        /\ \/ AlarmStore(i, TRUE) \/ AlarmReply(i)
           \/ ImageStore(i, TRUE) \/ ImageReply(i)

\* The listener is an async function and nothing handles the promise it
\* returns: the ReferenceError it throws becomes an unhandled rejection.  No
\* 'unhandledRejection' listener is installed, so the runtime decides: it
\* prints a warning and goes on, or it ends the process, and with it every
\* invocation that waits for the store.
Rejection(i) ==
    /\ handlers[i].pc = "threw"
    /\ Alive
    /\ \/ handlers' = [handlers EXCEPT ![i].pc = "warned"]
       \/ handlers' = [j \in DOMAIN handlers |->
                          IF j = i THEN [handlers[j] EXCEPT !.pc = "exited"]
                          ELSE IF InFlight(handlers[j])
                               THEN [handlers[j] EXCEPT !.pc = "lost"]
                               ELSE handlers[j]]
    /\ UNCHANGED <<rooms, devices, telemetry, alarms, images, files, users,
                   published, emitted>>

LocalOtherDispatch == Alive /\ OtherDispatch

LocalOtherStep == Alive /\ OtherStep

NextLocal ==
    \/ FailDispatch
    \/ FailStep
    \/ \E i \in DOMAIN handlers : Rejection(i)
    \/ LocalOtherDispatch
    \/ LocalOtherStep

SpecLocal == Init /\ [][NextLocal]_vars

-----------------------------------------------------------------------------
(* One device that writes its address with either separator, in the        *)
(* registration payload and in the topics it publishes on                  *)

MaxCanonReg == 2     \* registration messages
MaxCanonData == 1    \* telemetry, alarm and image messages

NextCanon ==
    \/ /\ NumKind(RegKinds) < MaxCanonReg
       /\ \E t \in Tenants, m \in MacInputs : Register(t, MixName, m)
    \/ \E i \in DOMAIN handlers : RegStore(i, FALSE)
    \/ \E i \in DOMAIN handlers : RegReply(i)
    \/ /\ NumKind(DataKinds) < MaxCanonData
       /\ \E m \in MacInputs :
             \/ Telemetry(MixTenant, m, MixTelemetry)
             \/ Alarm(MixTenant, m, MixAlarm)
             \/ Image(MixTenant, m, MixImage)
    \/ \E i \in DOMAIN handlers : TelemetryStore(i, FALSE) \/ TelemetryReply(i)
    \/ \E i \in DOMAIN handlers : AlarmStore(i, FALSE) \/ AlarmReply(i)
    \/ \E i \in DOMAIN handlers : ImageStore(i, FALSE) \/ ImageReply(i)

SpecCanon == Init /\ [][NextCanon]_vars

-----------------------------------------------------------------------------
(* Properties *)

IsReg(h) == h.kind = "register"

\* handler i took its last step in this transition
Finishes(i) ==
    /\ i \in DOMAIN handlers'
    /\ handlers'[i].pc \in {"done", "threw"}
    /\ (i \in DOMAIN handlers => handlers[i].pc \notin {"done", "threw"})

\* handler i was dispatched in this transition
Dispatched(i) == i \in DOMAIN handlers' /\ i \notin DOMAIN handlers

ActiveRows(rows, mac) == {r \in rows : r.mac = mac /\ r.active}

PublishedBy(i, class) ==
    {k \in DOMAIN published : published[k].h = i /\ published[k].class = class}

\* C1: in every reachable state of the device store, each MAC address has at
\* most one device row with active = true.
C1_OneActiveRowPerMac ==
    \A r \in devices : Cardinality(ActiveRows(devices, r.mac)) <= 1

\* a store that went through a create, a transfer and a rejected add-device
C1_Witness ==
    /\ \E i \in DOMAIN handlers : IsReg(handlers[i]) /\ handlers[i].status = "reassigned"
    /\ \E i \in DOMAIN handlers :
          handlers[i].kind = "add-device" /\ handlers[i].status = "500"
    /\ \E r \in devices : r.active

\* the case of the store that the cache lookup of a registration stands for
StoreCase(rows, t, mac, name) ==
    IF \A r \in rows : r.mac # mac THEN "create"
    ELSE IF \E r \in ActiveRows(rows, mac) : r.user # t THEN "reassign"
    ELSE IF \E r \in ActiveRows(rows, mac) : r.user = t /\ r.name # name THEN "rename"
    ELSE IF \E r \in ActiveRows(rows, mac) : r.user = t /\ r.name = name THEN "unchanged"
    ELSE "undetermined"

StatusOfCase(c) ==
    CASE c = "create" -> "created"
      [] c = "reassign" -> "reassigned"
      [] c = "rename" -> "name_updated"
      [] OTHER -> "unchanged"

C2_Dispatch(i) ==
    LET h == handlers'[i]
        c == StoreCase(devices, h.userUuid, h.mac, h.deviceName) IN
    (Dispatched(i) /\ IsReg(h) /\ h.mac # NoMac /\ ~h.overlap /\ c # "undetermined")
        => h.branch = c

C2_Outcome(i) ==
    LET h == handlers'[i] IN
    (Finishes(i) /\ IsReg(h) /\ ~h.overlap
       /\ h.status \in {"created", "reassigned", "name_updated", "unchanged"})
        => /\ h.status = StatusOfCase(h.branch)
           /\ ActiveRows(devices', h.mac) =
                 {[mac |-> h.mac, user |-> h.userUuid, name |-> h.deviceName,
                   active |-> TRUE]}

\* C2: a registration (T, M, N) handled while no other registration of M is in
\* flight is answered created / reassigned / name_updated / unchanged exactly
\* when the store holds no row of M / an active row of M under another tenant /
\* an active row under T with another name / an active row under T with name N,
\* and a non-error outcome leaves exactly one active row of M, (T, M, N).
C2_StatusFollowsStore ==
    [][\A i \in DOMAIN handlers' : C2_Dispatch(i) /\ C2_Outcome(i)]_vars

\* C3: after M was registered under A and then, alone, under B, the store holds
\* A's row of M with active = false and B's row of M with active = true.
C3_OldRowKeptInactive ==
    \A i \in DOMAIN handlers :
        LET h == handlers[i] IN
        (IsReg(h) /\ h.branch = "reassign" /\ h.pc = "reply" /\ h.ok /\ ~h.overlap)
            => /\ \E r \in devices :
                     r.mac = h.mac /\ r.user = h.existingUser /\ ~r.active
               /\ \E r \in devices :
                     r.mac = h.mac /\ r.user = h.userUuid /\ r.active

\* a step of a registration or of an add-device request
RegStep ==
    \E i \in DOMAIN handlers' :
        /\ handlers'[i].kind \in RegKinds
        /\ (i \in DOMAIN handlers => handlers'[i] # handlers[i])

\* C4: handling a registration, whatever its outcome, leaves every persisted
\* telemetry, alarm and image record (and stored image) as it was: none is
\* deleted and none changes its tenant or device.
C4_HistoryUntouched ==
    [][RegStep => /\ telemetry' = telemetry
                  /\ alarms' = alarms
                  /\ images' = images
                  /\ files' = files]_vars

\* the device was transferred from the tenant under which a record was written
C4_Witness ==
    \E i, k \in DOMAIN handlers :
        /\ k < i
        /\ handlers[k].kind \in DataKinds /\ handlers[k].pc = "done"
        /\ handlers[k].written = 1
        /\ IsReg(handlers[i]) /\ handlers[i].status = "reassigned"
        /\ handlers[i].existingUser = handlers[k].userUuid
        /\ handlers[i].mac = handlers[k].mac
        /\ \E j \in DOMAIN telemetry \cup DOMAIN alarms \cup DOMAIN images :
              \/ j \in DOMAIN telemetry /\ telemetry[j].h = k
                   /\ telemetry[j].user = handlers[k].userUuid
              \/ j \in DOMAIN alarms /\ alarms[j].h = k
                   /\ alarms[j].user = handlers[k].userUuid
              \/ j \in DOMAIN images /\ images[j].h = k
                   /\ images[j].user = handlers[k].userUuid

\* two registrations of an unknown MAC from two tenants, handled overlapping
RacingCreates(i, j) ==
    /\ i # j
    /\ IsReg(handlers[i]) /\ IsReg(handlers[j])
    /\ handlers[i].mac = handlers[j].mac
    /\ handlers[i].userUuid # handlers[j].userUuid
    /\ handlers[i].branch = "create" /\ handlers[j].branch = "create"
    /\ handlers[i].overlap /\ handlers[j].overlap

\* C5: of two overlapping registrations of one unknown MAC from two tenants at
\* most one is answered created, and at most one tenant owns an active row.
C5_RaceOneCreated ==
    \A i, j \in DOMAIN handlers :
        RacingCreates(i, j)
            => /\ ~(handlers[i].status = "created" /\ handlers[j].status = "created")
               /\ Cardinality({r.user : r \in ActiveRows(devices, handlers[i].mac)}) <= 1

C5_Witness ==
    \E i, j \in DOMAIN handlers :
        /\ RacingCreates(i, j)
        /\ handlers[i].pc = "done" /\ handlers[j].pc = "done"
        /\ handlers[i].status = "created"
        /\ Cardinality(ActiveRows(devices, handlers[i].mac)) = 1

\* C6: a registration that raced with another one of the same MAC is not
\* answered with status error.
C6_RaceLoserNotError ==
    \A i \in DOMAIN handlers :
        (IsReg(handlers[i]) /\ handlers[i].overlap /\ handlers[i].pc = "done")
            => handlers[i].status # "error"

\* C7: a registration (T, M, N) of a device active under T with name N, handled
\* alone, is answered unchanged and changes neither the device rows nor the
\* cached device lists.
C7_SameTripleUnchanged ==
    [][\A i \in DOMAIN handlers' :
          LET h == handlers'[i] IN
          (Dispatched(i) /\ IsReg(h) /\ h.mac # NoMac /\ ~h.overlap
             /\ [mac |-> h.mac, user |-> h.userUuid, name |-> h.deviceName,
                 active |-> TRUE] \in devices)
              => /\ h.status = "unchanged"
                 /\ devices' = devices
                 /\ users' = users]_vars

ResponseStatuses == {"created", "reassigned", "name_updated", "unchanged", "error"}

\* C8: every registration of a known tenant that supplies a MAC address results
\* in exactly one message on that tenant's register-response topic, carrying
\* the name, the canonical MAC and a status.
C8_OneResponse ==
    \A i \in DOMAIN handlers :
        LET h == handlers[i] IN
        (IsReg(h) /\ h.payload.macAddress # NoMac /\ h.pc \in {"done", "threw"})
            => /\ Cardinality(PublishedBy(i, "register-response")) = 1
               /\ \A k \in PublishedBy(i, "register-response") :
                     /\ published[k].tenant = h.userUuid
                     /\ published[k].mac = Canon(h.payload.macAddress)
                     /\ published[k].name = h.deviceName
                     /\ published[k].status \in ResponseStatuses

\* the telemetry message of handler h was rejected before any write
TelemetryRejected(h) == ~h.payload.sensor \/ h.payload.value = "absent"

\* C9: every telemetry message with a messageId gets exactly one acknowledgment,
\* published after the persistence attempt, on the command topic of its tenant
\* and MAC, with its messageId, success if the write succeeded and error if the
\* message was rejected or the write failed.
C9_TelemetryAck ==
    \A i \in DOMAIN handlers :
        LET h == handlers[i] IN
        (h.kind = "telemetry" /\ h.payload.json /\ h.payload.messageId # NoId)
            => /\ h.pc = "query" => PublishedBy(i, "commands") = {}
               /\ h.pc = "done" =>
                     /\ Cardinality(PublishedBy(i, "commands")) = 1
                     /\ \A k \in PublishedBy(i, "commands") :
                           /\ published[k].tenant = h.userUuid
                           /\ published[k].mac = h.mac
                           /\ published[k].messageId = h.payload.messageId
                           /\ published[k].status =
                                 IF TelemetryRejected(h) \/ h.error = "store unavailable"
                                 THEN "error" ELSE "success"

\* C10: every image message with a messageId gets exactly one acknowledgment on
\* the command topic of its tenant and MAC, with its messageId, success if the
\* image was stored and error otherwise.
C10_ImageAck ==
    \A i \in DOMAIN handlers :
        LET h == handlers[i] IN
        (h.kind = "images" /\ h.payload.json /\ h.payload.messageId # NoId
           /\ h.pc = "done")
            => /\ Cardinality(PublishedBy(i, "commands")) = 1
               /\ \A k \in PublishedBy(i, "commands") :
                     /\ published[k].tenant = h.userUuid
                     /\ published[k].mac = h.mac
                     /\ published[k].messageId = h.payload.messageId
                     /\ published[k].status = IF h.written = 1 THEN "success" ELSE "error"

\* a telemetry or image message whose payload carries no messageId
NoMessageId(h) ==
    h.kind \in {"telemetry", "images"} /\ (~h.payload.json \/ h.payload.messageId = NoId)

\* C11: a telemetry or image message without a messageId never causes an
\* acknowledgment, whether its processing succeeds or fails, and every
\* acknowledgment carries a messageId supplied by an earlier inbound message on
\* the same tenant and MAC.
C11_AckOnlyOnRequest ==
    /\ \A i \in DOMAIN handlers :
          NoMessageId(handlers[i]) => PublishedBy(i, "commands") = {}
    /\ \A k \in DOMAIN published :
          published[k].class = "commands"
            => \E j \in DOMAIN handlers :
                  /\ handlers[j].kind \in {"telemetry", "images"}
                  /\ handlers[j].payload.json
                  /\ handlers[j].payload.messageId # NoId
                  /\ handlers[j].payload.messageId = published[k].messageId
                  /\ handlers[j].userUuid = published[k].tenant
                  /\ handlers[j].mac = published[k].mac

\* a reading without a messageId was stored and its processing is over
C11_Witness ==
    \E i \in DOMAIN handlers :
        /\ handlers[i].kind = "telemetry" /\ NoMessageId(handlers[i])
        /\ handlers[i].pc = "done" /\ handlers[i].status = "success"
        /\ handlers[i].written = 1

\* rows of table telemetry written by handler i
RowsOf(i) == {k \in DOMAIN telemetry : telemetry[k].h = i}

\* a telemetry handler whose processing is over and whose INSERTs the store accepted
StoredTelemetry(h) ==
    h.kind = "telemetry" /\ h.pc = "done" /\ h.error # "store unavailable"

\* sensor present, isBatch false, value a number or a numeric string
ValidSingle(p) ==
    p.json /\ p.sensor /\ ~p.isBatch /\ p.value \in {"number", "numstr"}

ValidBatch(p) == p.json /\ p.sensor /\ p.isBatch /\ p.value = "array"

\* positions of the well-formed [timestamp, value] entries of a batch
GoodEntries(p) == {k \in DOMAIN p.entries : p.entries[k] = "good"}

\* C13: a valid batch with N well-formed [timestamp, value] entries and any
\* number of malformed entries (entries that are not 2-element arrays), whose
\* writes the store accepts, persists exactly N records, one per well-formed
\* entry, each with that entry's own timestamp.
C13_BatchStored ==
    \A i \in DOMAIN handlers :
        LET h == handlers[i] IN
        (StoredTelemetry(h) /\ ValidBatch(h.payload))
            => /\ Cardinality(RowsOf(i)) = Cardinality(GoodEntries(h.payload))
               /\ \A k \in RowsOf(i) :
                     /\ telemetry[k].entry \in GoodEntries(h.payload)
                     /\ telemetry[k].timestamp = "entry"
               /\ \A e \in GoodEntries(h.payload) :
                     \E k \in RowsOf(i) : telemetry[k].entry = e

\* C14: the recordCount of a success acknowledgment of a telemetry message is
\* the number of telemetry records persisted for that message, for single
\* readings and for batches, skipped entries included.
C14_RecordCount ==
    \A k \in DOMAIN published :
        (published[k].class = "commands" /\ published[k].status = "success"
           /\ handlers[published[k].h].kind = "telemetry")
            => published[k].recordCount = Cardinality(RowsOf(published[k].h))

EmittedBy(i) == {k \in DOMAIN emitted : emitted[k].h = i}

\* exactly one acknowledgment was published for handler i, with status error
\* and the messageId of its payload
ErrorAcked(i) ==
    /\ Cardinality(PublishedBy(i, "commands")) = 1
    /\ \A k \in PublishedBy(i, "commands") :
          /\ published[k].status = "error"
          /\ published[k].messageId = handlers[i].payload.messageId
          /\ published[k].tenant = handlers[i].userUuid
          /\ published[k].mac = handlers[i].mac

BadValue(p) ==
    /\ p.json /\ p.sensor /\ p.value # "absent"
    /\ IF p.isBatch THEN p.value # "array" ELSE p.value \notin {"number", "numstr"}

\* C16: a non-batch telemetry message whose value does not coerce to a number,
\* and a batch message whose value is not an array, is rejected: no telemetry
\* record is written and, with a messageId, an error acknowledgment is issued.
C16_BadValueRejected ==
    \A i \in DOMAIN handlers :
        LET h == handlers[i] IN
        (h.kind = "telemetry" /\ h.pc = "done" /\ BadValue(h.payload))
            => /\ RowsOf(i) = {}
               /\ (h.payload.messageId # NoId => ErrorAcked(i))

ImageRowsOf(i) == {k \in DOMAIN images : images[k].h = i}

FilesOf(i) == {f \in files : f.h = i}

\* C17: an image message whose imageData fails base64 decoding persists no
\* image row, stores no object and is acknowledged with status error.
C17_BadBase64Rejected ==
    \A i \in DOMAIN handlers :
        LET h == handlers[i] IN
        (h.kind = "images" /\ h.pc = "done" /\ h.payload.json /\ h.payload.imageId
           /\ h.payload.imageData = "garbled")
            => /\ ImageRowsOf(i) = {}
               /\ FilesOf(i) = {}
               /\ (h.payload.messageId # NoId => ErrorAcked(i))

TooFewSegments(parts) == Len(parts) < 3 \/ Len(parts) = 4

\* a per-device topic whose class is none of telemetry, alarms, images, commands
UnknownClass(parts) ==
    Len(parts) >= 5 /\ parts[5] \notin {"telemetry", "alarms", "images", "commands"}

\* the tenant segment is not a known tenant
UnknownTenantTopic(parts) == Len(parts) >= 3 /\ parts[2] \notin Tenants

MalformedTopic(parts) ==
    TooFewSegments(parts) \/ UnknownClass(parts) \/ UnknownTenantTopic(parts)

\* C19: a message whose topic is malformed (too few segments, a class outside
\* telemetry / alarms / images / commands, an unknown tenant) is dropped: its
\* handling persists no record, changes no device row and no cache entry, and
\* publishes no acknowledgment, no registration response and no live event.
C19_MalformedDropped ==
    [][\A i \in DOMAIN handlers' :
          (Dispatched(i) /\ MalformedTopic(handlers'[i].topic))
            => /\ handlers'[i].kind = "dropped"
               /\ handlers'[i].pc = "done"
               /\ UNCHANGED <<devices, telemetry, alarms, images, files, users,
                              published, emitted>>]_vars

\* a message of an unknown tenant was dropped and a well-formed one was stored
C19_Witness ==
    /\ \E i \in DOMAIN handlers :
          /\ handlers[i].kind = "dropped"
          /\ Len(handlers[i].topic) = 5 /\ handlers[i].topic[2] = UnknownTenant
    /\ \E j \in DOMAIN handlers :
          /\ handlers[j].kind = "telemetry" /\ handlers[j].pc = "done"
          /\ handlers[j].written = 1

\* C20: every live event (telemetry, alarm, image, device-registered) caused by
\* a message on tenant T's topic goes to exactly the viewers joined to T when it
\* is emitted: each of them receives it, and no viewer outside T's room does.
C20_EventsToTenantRoom ==
    [][\A k \in DOMAIN emitted' :
          k \notin DOMAIN emitted
            => /\ emitted'[k].event \in {"telemetry", "alarm", "image", "device-registered"}
               /\ emitted'[k].to = rooms[handlers'[emitted'[k].h].userUuid]]_vars

\* an event of one tenant reached the viewer in its room, and an event of the
\* other tenant was emitted while the viewer was not in that tenant's room
C20_Witness ==
    \E j, k \in DOMAIN emitted :
        /\ emitted[j].room = "A" /\ emitted[k].room = "B"
        /\ emitted[j].to # {} /\ emitted[k].to = {}
        /\ emitted[k].event = "device-registered"

\* C21: every successful registration that changes the device registry (status
\* created, reassigned or name_updated) results in a live device event emitted
\* to the room of the registering tenant.
C21_RegistryChangeEmitted ==
    \A i \in DOMAIN handlers :
        LET h == handlers[i] IN
        (IsReg(h) /\ h.pc = "done"
           /\ h.status \in {"created", "reassigned", "name_updated"})
            => \E k \in EmittedBy(i) :
                  /\ emitted[k].event = "device-registered"
                  /\ emitted[k].room = h.userUuid
                  /\ emitted[k].mac = h.mac

\* C22: acknowledging an alarm is idempotent: an acknowledged alarm stays
\* acknowledged and keeps its original acknowledged_at, whatever acknowledge
\* requests follow.
C22_AcknowledgeIdempotent ==
    [][\A k \in DOMAIN alarms :
          alarms[k].acknowledged
            => /\ alarms'[k].acknowledged
               /\ alarms'[k].acknowledged_at = alarms[k].acknowledged_at]_vars

\* handler i stored its reading and acknowledged it
StoredAndAcked(i) ==
    /\ handlers[i].pc = "done" /\ handlers[i].status = "success"
    /\ RowsOf(i) # {}
    /\ \E k \in PublishedBy(i, "commands") : published[k].status = "success"

OtherServed ==
    Cardinality({i \in DOMAIN handlers :
                    handlers[i].mac = OtherMac /\ StoredAndAcked(i)}) = MaxOther

C24_FailureLocal ==
    \A i \in DOMAIN handlers :
        handlers[i].mac = OtherMac
            => /\ handlers[i].pc \in {"query", "reply", "done"}
               /\ handlers[i].pc = "done" => StoredAndAcked(i)

\* the (tenant, MAC) pairs that have a row in the device store
DeviceKeys(rows) == {<<r.user, r.mac>> : r \in rows}

\* C25: device rows are never deleted: once the store holds a row for
\* (tenant, MAC), it holds a row for that pair in every later state, whatever
\* registrations, renames and transfers follow.
C25_RowsNeverDeleted == [][DeviceKeys(devices) \subseteq DeviceKeys(devices')]_vars

\* handler i is a registration that supplied a MAC address but no name
NamelessReg(i) ==
    /\ IsReg(handlers[i])
    /\ handlers[i].payload.name = NoName
    /\ handlers[i].payload.macAddress # NoMac

\* C26: a registration with a MAC address and no device name is handled with a
\* placeholder name: it is resolved like any other registration and, once it
\* is over, a register-response carrying a name was published for it.
C26_PlaceholderName ==
    \A i \in DOMAIN handlers :
        NamelessReg(i)
            => /\ handlers[i].pc \in {"query", "reply", "done"}
               /\ handlers[i].pc = "done"
                    => \E k \in PublishedBy(i, "register-response") :
                          published[k].name # NoName

IsCanonical(mac) == Canon(mac) = mac

\* C27: the MAC address is canonicalized before every lookup and write, and
\* canonicalization is idempotent: every stored and cached device address is
\* canonical, two registrations of one address in different separator forms are
\* never both answered `created`, and the MAC segment of a per-device topic is
\* looked up and stored in canonical form.
C27_CanonicalMac ==
    /\ \A m \in MacInputs : IsCanonical(Canon(m))
    /\ \A r \in devices : IsCanonical(r.mac)
    /\ \A t \in Tenants : \A j \in DOMAIN users[t] : IsCanonical(users[t][j].macAddress)
    /\ \A i, j \in DOMAIN handlers :
          (/\ IsReg(handlers[i]) /\ IsReg(handlers[j])
           /\ handlers[i].status = "created" /\ handlers[j].status = "created"
           /\ handlers[i].mac = handlers[j].mac) => i = j
    /\ \A i \in DOMAIN handlers :
          handlers[i].kind \in DataKinds => IsCanonical(handlers[i].mac)
    /\ \A k \in DOMAIN telemetry : IsCanonical(telemetry[k].mac)
    /\ \A k \in DOMAIN alarms : IsCanonical(alarms[k].mac)
    /\ \A k \in DOMAIN images : IsCanonical(images[k].mac)

\* the record was written for a tenant whose cache held the device when the
\* message was handled, and the store knows the address
AccruedToDevice(row) ==
    /\ row.name # Unknown
    /\ \E d \in devices : d.mac = row.mac

\* C28: new data accrues only to the active device: a telemetry, alarm or
\* image record is persisted under (T, M) only if T held the device M when the
\* message was handled, and none is persisted for a MAC that was never
\* registered.
C28_DataOnlyForActiveDevice ==
    /\ \A k \in DOMAIN telemetry : AccruedToDevice(telemetry[k])
    /\ \A k \in DOMAIN alarms : AccruedToDevice(alarms[k])
    /\ \A k \in DOMAIN images : AccruedToDevice(images[k])

\* the first three invocations are registrations of one device under X, Y and
\* X again, each one over before the next is dispatched, and nothing followed
ThereAndBack(x, y) ==
    /\ Len(handlers) = 3
    /\ \A i \in 1..3 : /\ IsReg(handlers[i])
                       /\ handlers[i].pc = "done"
                       /\ ~handlers[i].overlap
    /\ handlers[1].userUuid = x /\ handlers[2].userUuid = y
    /\ handlers[3].userUuid = x
    /\ handlers[1].status = "created"

\* C29: a device can be reassigned back to a previous owner: after M was
\* registered under A, under B and under A again, each call completing, the
\* third registration is answered `reassigned`, A is the only active owner of
\* M in the store and in the cache and B holds M no longer.
C29_ReassignedBack ==
    \A x, y \in Tenants :
        (x # y /\ ThereAndBack(x, y))
            => LET mac == handlers[3].mac IN
               /\ handlers[3].status = "reassigned"
               /\ \E k \in PublishedBy(3, "register-response") :
                     published[k].status = "reassigned"
               /\ \A r \in ActiveRows(devices, mac) : r.user = x
               /\ Cardinality(ActiveRows(devices, mac)) = 1
               /\ FindDevice(users[x], mac) # 0
               /\ FindDevice(users[y], mac) = 0

C29_Witness ==
    /\ ThereAndBack("A", "B")
    /\ handlers[2].status = "reassigned"
    /\ handlers[3].status = "reassigned"

\* the store rejects or fails the statement of registration i in this step
RegWriteFails(i) ==
    /\ IsReg(handlers[i]) /\ handlers[i].pc = "query"
    /\ handlers'[i].pc = "reply" /\ ~handlers'[i].ok

\* the catch block of the failed registration i runs in this step
RegFailureAnswered(i) ==
    /\ IsReg(handlers[i]) /\ handlers[i].pc = "reply" /\ ~handlers[i].ok
    /\ handlers'[i].pc = "done"

\* C30: when the store write of a registration (create, reassign or rename)
\* fails, the response carries status `error` and the error text, the cached
\* device lists and the device rows stay as they were and no live device event
\* is emitted.
C30_RegistrationWriteFailure ==
    [][\A i \in DOMAIN handlers :
          /\ RegWriteFails(i)
                => /\ devices' = devices /\ users' = users
                   /\ emitted' = emitted /\ published' = published
          /\ RegFailureAnswered(i)
                => /\ devices' = devices /\ users' = users
                   /\ emitted' = emitted
                   /\ Len(published') = Len(published) + 1
                   /\ LET r == published'[Len(published')] IN
                      /\ r.h = i /\ r.class = "register-response"
                      /\ r.tenant = handlers[i].userUuid
                      /\ r.status = "error"
                      /\ r.error = handlers[i].error /\ r.error # "none"]_vars

\* a transfer whose UPDATE the store failed was answered with the error, and
\* the device is still with its first owner
C30_Witness ==
    \E i \in DOMAIN handlers :
        /\ IsReg(handlers[i]) /\ handlers[i].pc = "done"
        /\ handlers[i].branch = "reassign" /\ ~handlers[i].ok
        /\ handlers[i].error = "store unavailable"
        /\ \E k \in PublishedBy(i, "register-response") :
              published[k].status = "error" /\ published[k].error = "store unavailable"
        /\ FindDevice(users[handlers[i].existingUser], handlers[i].mac) # 0
        /\ \A r \in devices : r.mac = handlers[i].mac => r.user = handlers[i].existingUser

AlarmRowsOf(i) == {k \in DOMAIN alarms : alarms[k].h = i}

\* C31: a live alarm event is emitted only after the alarm row was persisted;
\* an alarm whose store write fails causes no alarm event.
C31_AlarmEventAfterPersist ==
    \A k \in DOMAIN emitted :
        emitted[k].event = "alarm" => AlarmRowsOf(emitted[k].h) # {}

\* the live events of kind ev that handler i caused
LiveEvents(i, ev) == {k \in EmittedBy(i) : emitted[k].event = ev}

\* handler i is over, wrote at least one record, and no write of it failed
Persisted(i, rows) ==
    /\ handlers[i].pc = "done"
    /\ rows # {}
    /\ handlers[i].error # "store unavailable"

\* at most one event, none before the end of a processing without failure,
\* and one for every persisted message
OneEventIfPersisted(i, ev, rows) ==
    /\ Cardinality(LiveEvents(i, ev)) <= 1
    /\ LiveEvents(i, ev) # {}
          => handlers[i].pc = "done" /\ handlers[i].error # "store unavailable"
    /\ Persisted(i, rows) => Cardinality(LiveEvents(i, ev)) = 1

\* C32: for telemetry and image messages exactly one live event is emitted per
\* successfully persisted message, only after its persistence completed; a
\* rejected message and a message whose store write fails cause no live event.
C32_OneEventPerPersistedMessage ==
    \A i \in DOMAIN handlers :
        /\ handlers[i].kind = "telemetry"
              => /\ OneEventIfPersisted(i, "telemetry", RowsOf(i))
                 /\ (~handlers[i].payload.json \/ TelemetryRejected(handlers[i]))
                       => LiveEvents(i, "telemetry") = {}
        /\ handlers[i].kind = "images"
              => /\ OneEventIfPersisted(i, "image", ImageRowsOf(i))
                 /\ ImageRejected(handlers[i].payload) => LiveEvents(i, "image") = {}

\* the record storeAlarm writes for the payload p
ExpectedSeverity(p) == IF p.json /\ p.severity # "absent" THEN p.severity ELSE "info"

ExpectedMessage(p) == IF p.json /\ p.message # "absent" THEN p.message ELSE "raw"

\* C33: every alarm message on a known tenant's topic, whatever its payload,
\* yields exactly one alarm record of the tenant and MAC of the topic, created
\* unacknowledged, with the severity of a JSON payload verbatim (info when
\* absent) and its message, and with the raw text and severity info for a
\* payload that is not JSON (the store accepting the write).
C33_OneAlarmRecord ==
    \A i \in DOMAIN handlers :
        LET h == handlers[i] IN
        (h.kind = "alarms" /\ h.pc \in {"done", "threw"}
           /\ h.error # "store unavailable")
            => /\ Cardinality(AlarmRowsOf(i)) = 1
               /\ \A k \in AlarmRowsOf(i) :
                     /\ alarms[k].user = h.userUuid
                     /\ alarms[k].mac = h.mac
                     /\ ~alarms[k].acknowledged
                     /\ alarms[k].severity = ExpectedSeverity(h.payload)
                     /\ alarms[k].message = ExpectedMessage(h.payload)

\* the invocation handles a telemetry, alarm, image or command message
IsDataMessage(h) ==
    \/ h.kind \in DataKinds
    \/ h.kind = "dropped" /\ Len(h.topic) >= 5 /\ h.topic[5] = "commands"

\* a data message is dispatched or one of its steps runs in this transition
DataMessageActs ==
    \E i \in DOMAIN handlers' :
        /\ IsDataMessage(handlers'[i])
        /\ (i \in DOMAIN handlers => handlers'[i] # handlers[i])

\* C34: handling a telemetry, alarm, image or command message never alters
\* device identity: the device rows of the store and the cached device list
\* of every tenant are the same after each of its steps as before, on success
\* and on failure.
C34_DataLeavesDevicesAlone ==
    [][DataMessageActs => (devices' = devices /\ users' = users)]_vars

\* a data message of a registered device was handled to its end, the store
\* having failed its write
C34_Witness ==
    \E i, j \in DOMAIN handlers :
        /\ IsReg(handlers[i]) /\ handlers[i].status = "created"
        /\ handlers[j].kind \in DataKinds /\ handlers[j].pc = "done"
        /\ handlers[j].mac = handlers[i].mac
        /\ handlers[j].error = "store unavailable"
        /\ devices # {}

\* the (MAC, name) pairs of the cached device list of tenant t
CachedDevices(t) == {<<users[t][j].macAddress, users[t][j].name>> : j \in DOMAIN users[t]}

\* the (MAC, name) pairs of the active device rows of tenant t
StoredDevices(t) == {<<r.mac, r.name>> : r \in {q \in devices : q.user = t /\ q.active}}

NoWriterInFlight ==
    \A i \in DOMAIN handlers :
        handlers[i].kind \in RegKinds => ~InFlight(handlers[i])

\* C35: the cache is a projection of the store: whenever no registration is in
\* flight, a tenant's cached list holds MAC M with name N exactly when the
\* store holds the active row (tenant, M, N), after any interleaving of
\* registrations.
C35_CacheProjectsStore ==
    NoWriterInFlight => \A t \in Tenants : CachedDevices(t) = StoredDevices(t)

\* the cache entries of MAC mac, as (tenant, position) pairs
CacheEntries(mac) ==
    UNION {{<<t, j>> : j \in {k \in DOMAIN users[t] : users[t][k].macAddress = mac}} :
              t \in Tenants}

\* C36: in every reachable state each MAC appears in the cached device list of
\* at most one tenant, and at most once in that list, also when registrations
\* of the MAC from different tenants overlap.
C36_CacheOneEntryPerMac == Cardinality(CacheEntries(Canon(RaceMac))) <= 1

\* C37: a batch telemetry message is persisted all-or-nothing: whenever an
\* error acknowledgment is issued for it, no telemetry record of the message
\* remains persisted.
C37_BatchAllOrNothing ==
    \A i \in DOMAIN handlers :
        LET h == handlers[i] IN
        (/\ h.kind = "telemetry" /\ h.pc = "done"
         /\ IsBatchArray(h.payload)
         /\ \E k \in PublishedBy(i, "commands") : published[k].status = "error")
            => RowsOf(i) = {}

\* C38: the server receives its own publications; a registration response or
\* an acknowledgment delivered back to the listener is dropped: it persists
\* nothing, changes no device row and no cache entry and causes no further
\* publication or event, so the publications never outnumber the messages of
\* the devices and the handling of a finite set of them comes to rest.
C38_OwnPublicationsInert ==
    /\ [][\A i \in DOMAIN handlers' :
             (Dispatched(i) /\ handlers'[i].echo # 0)
               => /\ handlers'[i].kind = "dropped"
                  /\ handlers'[i].pc = "done"
                  /\ UNCHANGED <<devices, telemetry, alarms, images, files, users,
                                 published, emitted>>]_vars
    /\ [](Len(published) <= Cardinality(FromDevices))

\* a registration response and an acknowledgment both came back and were dropped
C38_Witness ==
    \E i, j \in DOMAIN handlers :
        /\ handlers[i].echo # 0 /\ handlers[j].echo # 0
        /\ published[handlers[i].echo].class = "register-response"
        /\ published[handlers[j].echo].class = "commands"
        /\ handlers[i].kind = "dropped" /\ handlers[j].kind = "dropped"

\* C39: image storage and the image records stay consistent: once an image
\* handler has finished, an object of it exists in storage if and only if an
\* image row points to it; a failed row insert leaves no orphan object.
C39_ImageFilesMatchRows ==
    \A i \in DOMAIN handlers :
        (handlers[i].kind = "images" /\ handlers[i].pc = "done")
            => /\ (FilesOf(i) # {}) <=> (ImageRowsOf(i) # {})
               /\ \A k \in ImageRowsOf(i) : images[k].file = i

IsAddDevice(h) == h.kind = "add-device"

\* the store executes the INSERT of add-device request i in this step, the
\* MAC having an active device row
AddDeviceOnActiveMac(i) ==
    /\ IsAddDevice(handlers[i]) /\ handlers[i].pc = "query"
    /\ handlers'[i].pc = "reply"
    /\ ActiveRows(devices, handlers[i].mac) # {}

\* the catch block of the refused add-device request i runs in this step
AddDeviceRefused(i) ==
    /\ IsAddDevice(handlers[i]) /\ handlers[i].pc = "reply" /\ ~handlers[i].ok
    /\ handlers'[i].pc = "done"

\* a step of an add-device request
AddDeviceActs ==
    \E i \in DOMAIN handlers' :
        /\ IsAddDevice(handlers'[i])
        /\ (i \in DOMAIN handlers => handlers'[i].pc # handlers[i].pc)

\* C40: a REST add-device request for a MAC that has an active device row,
\* under the same or another tenant, fails with an error and leaves the device
\* rows and every cached device list unchanged; no step of an add-device
\* request changes or removes an existing device row.
C40_AddDeviceNeverTakesOver ==
    [][/\ \A i \in DOMAIN handlers :
             /\ AddDeviceOnActiveMac(i)
                   => /\ ~handlers'[i].ok
                      /\ devices' = devices /\ users' = users
             /\ AddDeviceRefused(i)
                   => /\ handlers'[i].status = "500"
                      /\ devices' = devices /\ users' = users
       /\ AddDeviceActs => devices \subseteq devices']_vars

\* an add-device request of B for the device registered under A was refused
C40_Witness ==
    \E i, j \in DOMAIN handlers :
        /\ IsReg(handlers[i]) /\ handlers[i].status = "created"
        /\ IsAddDevice(handlers[j]) /\ handlers[j].pc = "done"
        /\ handlers[j].status = "500"
        /\ handlers[j].userUuid # handlers[i].userUuid
        /\ handlers[j].mac = handlers[i].mac
        /\ ~handlers[j].overlap
        /\ FindDevice(users[handlers[j].userUuid], handlers[j].mac) = 0
        /\ \A r \in devices : r.user = handlers[i].userUuid

====
